---- MODULE Spec2Model ----
(***************************************************************************)
(* Model of the aggregation core of the disputes dashboard                 *)
(* (src/src/calculations.py) over record sets produced by                  *)
(* src/src/data_loader.py.                                                 *)
(*                                                                         *)
(* A record set is a pandas DataFrame: a set of column names and a         *)
(* sequence of rows.  Every row carries its index label idx (the row's     *)
(* position in the loaded file), which pandas keeps through selection.     *)
(* Amounts (discrepancy_value, gallons) are integers counting thousandths, *)
(* so that round(2) is rounding to a multiple of 10.  Timestamps count     *)
(* half days from Monday 2024-01-01 00:00: 2*d is midnight of day d and    *)
(* 2*d+1 is noon of day d.                                                 *)
(***************************************************************************)
EXTENDS Integers, Sequences, FiniteSets

VARIABLES columns, df, call, status, resultColumns, table, metrics

vars == <<columns, df, call, status, resultColumns, table, metrics>>

-----------------------------------------------------------------------------
(* Bounds of the model *)

\* most rows of a record set
MaxLen == 3
\* largest N passed to calculate_top_disputes
MaxN == 2

-----------------------------------------------------------------------------
(* Columns *)

\* the columns calculate_top_disputes projects to
DisplayColumns ==
    {"po_number", "customerName", "siteName", "item",
     "discrepancy_value", "gallons", "disputedAt", "discrepancy_type"}

\* columns of the raw file that are not displayed
RawColumns == DisplayColumns \cup {"expected_rate", "billed_rate"}

\* the columns clean_disputes_data adds when disputedAt is present
clean_disputes_data(raw) ==
    IF "disputedAt" \in raw
    THEN raw \cup {"disputed_date", "disputed_month", "disputed_year"}
    ELSE raw

\* dtypes nlargest accepts: numeric and datetime columns of the cleaned frame
NumericColumns ==
    {"discrepancy_value", "gallons", "expected_rate", "billed_rate",
     "disputedAt", "disputed_year"}

\* the missing timestamp: errors='coerce' turns an unparseable date into NaT
NaT == -1

\* a missing category value
NullCat == "NaN"

-----------------------------------------------------------------------------
(* Arithmetic helpers *)

RECURSIVE SumSeq(_)
SumSeq(s) == IF s = <<>> THEN 0 ELSE Head(s) + SumSeq(Tail(s))

Abs(x) == IF x < 0 THEN -x ELSE x

Min(a, b) == IF a <= b THEN a ELSE b

\* the column `col` of the rows, as a sequence of values
Column(rows, col) == [i \in 1..Len(rows) |-> rows[i][col]]

Positive(r) == r.discrepancy_value > 0
Negative(r) == r.discrepancy_value < 0

\* Series.mean(): the pair sum / count; den = 0 is NaN (mean of nothing)
Mean(s) == [num |-> SumSeq(s), den |-> Len(s)]

-----------------------------------------------------------------------------
(* calculate_summary_metrics *)

SummaryNeeds == {"discrepancy_value", "gallons"}

NegativeTotalNoAbs(rows) ==
    SumSeq(Column(SelectSeq(rows, Negative), "discrepancy_value"))

\* abs(df[df['discrepancy_value'] < 0]['discrepancy_value'].sum())
NegativeTotal(rows) ==
    Abs(SumSeq(Column(SelectSeq(rows, Negative), "discrepancy_value")))

calculate_summary_metrics(rows) ==
    [ total_disputes               |-> Len(rows),
      total_discrepancy_value      |-> SumSeq(Column(rows, "discrepancy_value")),
      total_gallons                |-> SumSeq(Column(rows, "gallons")),
      avg_discrepancy_per_dispute  |-> Mean(Column(rows, "discrepancy_value")),
      avg_gallons_per_dispute      |-> Mean(Column(rows, "gallons")),
      total_positive_discrepancy   |->
          SumSeq(Column(SelectSeq(rows, Positive), "discrepancy_value")),
      total_negative_discrepancy   |-> NegativeTotal(rows),
      disputes_with_positive_value |-> Len(SelectSeq(rows, Positive)),
      disputes_with_negative_value |-> Len(SelectSeq(rows, Negative)) ]

-----------------------------------------------------------------------------
(* Results: what a call hands back.  status is "ok" or the exception raised *)

Outcome(st, cols, rows) == [status |-> st, columns |-> cols, table |-> rows]

Raise(exc) == Outcome(exc, {}, <<>>)

\* pd.DataFrame(): no columns, no rows
EmptyFrame == Outcome("ok", {}, <<>>)

\* the injective maps 1..n -> 1..n
Perms(n) == {p \in [1..n -> 1..n] : \A i, j \in 1..n : p[i] = p[j] => i = j}

-----------------------------------------------------------------------------
(* calculate_by_category *)

\* the nearest integer to num / den (den > 0), ties to the even one: numpy's round
RoundHalfEven(num, den) ==
    LET q == num \div den
        r == num - q * den
    IN  IF 2 * r < den THEN q
        ELSE IF 2 * r > den THEN q + 1
        ELSE IF q % 2 = 0 THEN q ELSE q + 1

\* rounding to one decimal instead of two
Round1(x) == 100 * RoundHalfEven(x, 100)

\* .round(2) of an amount in thousandths
Round2(x) == 10 * RoundHalfEven(x, 10)

\* .round(2) of a mean
RoundMean(s) == 10 * RoundHalfEven(SumSeq(s), 10 * Len(s))

CategoryNeeds == {"discrepancy_value", "gallons", "expected_rate", "billed_rate"}

CategoryColumns(category_col) ==
    {category_col, "total_discrepancy", "avg_discrepancy", "count",
     "total_gallons", "avg_gallons", "avg_expected_rate", "avg_billed_rate"}

\* groupby(dropna=False): a missing key is a group of its own
GroupKeysWithNull(rows, category_col) ==
    {rows[i][category_col] : i \in 1..Len(rows)}

\* groupby drops the rows whose key is missing (dropna=True)
GroupKeys(rows, category_col) ==
    {rows[i][category_col] : i \in 1..Len(rows)} \ {NullCat}

\* one row of the grouped frame: the aggregates of the rows with key k
GroupRow(rows, category_col, k) ==
    LET members == SelectSeq(rows, LAMBDA r : r[category_col] = k)
        values  == Column(members, "discrepancy_value")
        gallons == Column(members, "gallons")
    IN  [ category          |-> k,
          total_discrepancy |-> Round2(SumSeq(values)),
          avg_discrepancy   |-> RoundMean(values),
          count             |-> Len(values),
          total_gallons     |-> Round2(SumSeq(gallons)),
          avg_gallons       |-> RoundMean(gallons) ]

\* the grouped rows left in any order: no sort
AnyOrder(groups) ==
    LET ks == CHOOSE q \in [1..Cardinality(groups) -> groups] :
                  \A i, j \in 1..Cardinality(groups) : q[i] = q[j] => i = j
        n  == Cardinality(groups)
    IN  { [i \in 1..n |-> ks[p[i]]] : p \in Perms(n) }

\* sort_values('total_discrepancy', ascending=False): the default quicksort
\* is not stable, so rows with equal totals may come out in either order
SortedByTotal(groups) ==
    LET ks == CHOOSE q \in [1..Cardinality(groups) -> groups] :
                  \A i, j \in 1..Cardinality(groups) : q[i] = q[j] => i = j
        n  == Cardinality(groups)
    IN  { [i \in 1..n |-> ks[p[i]]] : p \in
            {p \in Perms(n) : \A i, j \in 1..n :
                i < j => ks[p[i]].total_discrepancy >= ks[p[j]].total_discrepancy} }

\* the call without its guard: groupby raises on the missing column
calculate_by_category_unguarded(cols, rows, category_col) ==
    IF category_col \notin cols \/ ~(CategoryNeeds \subseteq cols) THEN {Raise("KeyError")}
    ELSE LET groups == {GroupRow(rows, category_col, k) :
                            k \in GroupKeys(rows, category_col)}
         IN  {Outcome("ok", CategoryColumns(category_col), t) :
                  t \in SortedByTotal(groups)}

\* the set of frames the call may return
calculate_by_category(cols, rows, category_col) ==
    IF category_col \notin cols THEN {EmptyFrame}
    ELSE IF ~(CategoryNeeds \subseteq cols) THEN {Raise("KeyError")}
    ELSE LET groups == {GroupRow(rows, category_col, k) :
                            k \in GroupKeys(rows, category_col)}
         IN  {Outcome("ok", CategoryColumns(category_col), t) :
                  t \in SortedByTotal(groups)}

-----------------------------------------------------------------------------
(* calculate_by_date *)

\* last days of January, February and March 2024, counted from 2024-01-01 = day 0
MonthEnds == {30, 59, 90}

DayOf(t) == t \div 2

Midnight(d) == 2 * d

\* end of the week: 'W' is W-SUN, day 6 (2024-01-07) is a Sunday
WeekEnd(d) == d + (6 - (d % 7))

MonthEnd(d) == CHOOSE e \in MonthEnds : e >= d /\ \A x \in MonthEnds : x >= d => e <= x

\* the day labelling the bin that day d falls in
BinLabel(d, freq) ==
    IF freq = "D" THEN d
    ELSE IF freq = "W" THEN WeekEnd(d)
    ELSE MonthEnd(d)

\* the label after label l
NextLabel(l, freq) ==
    IF freq = "D" THEN l + 1
    ELSE IF freq = "W" THEN l + 7
    ELSE MonthEnd(l + 1)

\* the label before label l (a day before the first month for the first month)
PrevLabel(l, freq) ==
    IF freq = "D" THEN l - 1
    ELSE IF freq = "W" THEN l - 7
    ELSE IF \E e \in MonthEnds : e < l
         THEN CHOOSE e \in MonthEnds : e < l /\ \A x \in MonthEnds : x < l => x <= e
         ELSE -1

\* date_range(first, last, freq): every label from first to last
RECURSIVE LabelRange(_, _, _)
LabelRange(first, last, freq) ==
    IF first > last THEN <<>>
    ELSE <<first>> \o LabelRange(NextLabel(first, freq), last, freq)

\* bins closed on the left whatever the frequency: the last day of a week or
\* a month falls into the next bin
InBinClosedLeft(t, l, freq) ==
    IF freq = "D"
    THEN Midnight(l) <= t /\ t < Midnight(l + 1)
    ELSE Midnight(PrevLabel(l, freq)) <= t /\ t < Midnight(l)

\* the bin labelled l: 'D' bins are closed on the left and labelled by their
\* start; 'W' and 'M' bins are closed on the right and labelled by their last
\* day, the edge moved to the end of that day
InBin(t, l, freq) ==
    IF freq = "D"
    THEN Midnight(l) <= t /\ t < Midnight(l + 1)
    ELSE Midnight(PrevLabel(l, freq) + 1) <= t /\ t < Midnight(l + 1)

NotNaT(r) == r.disputedAt # NaT

DateNeeds == {"discrepancy_value", "gallons"}

DateColumns(date_col) ==
    {date_col, "total_discrepancy", "dispute_count", "total_gallons"}

Least(S) == CHOOSE x \in S : \A y \in S : x <= y
Greatest(S) == CHOOSE x \in S : \A y \in S : x >= y

\* one row of the resampled frame
BinRow(rows, l, freq) ==
    LET members == SelectSeq(rows, LAMBDA r : NotNaT(r) /\ InBin(r.disputedAt, l, freq))
    IN  [ disputedAt        |-> Midnight(l),
          total_discrepancy |-> SumSeq(Column(members, "discrepancy_value")),
          dispute_count     |-> Len(members),
          total_gallons     |-> SumSeq(Column(members, "gallons")) ]

\* only the bins that hold a record (what a groupby on the label would give)
OccupiedLabels(rows, freq) ==
    LET days == {DayOf(rows[i].disputedAt) : i \in {j \in 1..Len(rows) : NotNaT(rows[j])}}
        occ  == {BinLabel(d, freq) : d \in days}
    IN  SelectSeq(LabelRange(Least(occ), Greatest(occ), freq), LAMBDA l : l \in occ)

\* resample(freq): every bin from the one of the earliest timestamp to the
\* one of the latest, the rows without a timestamp in none
ResampleLabels(rows, freq) ==
    LET days == {DayOf(rows[i].disputedAt) : i \in {j \in 1..Len(rows) : NotNaT(rows[j])}}
    IN  LabelRange(BinLabel(Least(days), freq), BinLabel(Greatest(days), freq), freq)

calculate_by_date(cols, rows, date_col, freq) ==
    IF date_col \notin cols THEN EmptyFrame
    ELSE IF Len(rows) = 0
    THEN IF DateNeeds \subseteq cols
         THEN Outcome("ok", DateColumns(date_col), <<>>)
         ELSE Raise("KeyError")
    \* an index holding nothing but NaT has no first and no last timestamp:
    \* date_range(NaT, NaT) raises
    ELSE IF \A i \in 1..Len(rows) : ~NotNaT(rows[i]) THEN Raise("ValueError")
    ELSE IF ~(DateNeeds \subseteq cols) THEN Raise("KeyError")
    ELSE LET labels == ResampleLabels(rows, freq)
         IN  Outcome("ok", DateColumns(date_col),
                     [i \in 1..Len(labels) |-> BinRow(rows, labels[i], freq)])

-----------------------------------------------------------------------------
(* calculate_top_disputes *)

\* rows in descending order of sort_by, equal values in their original order
RECURSIVE StableDescending(_, _)
StableDescending(rows, sort_by) ==
    IF rows = <<>> THEN <<>>
    ELSE LET m == CHOOSE i \in 1..Len(rows) :
                    /\ \A j \in 1..Len(rows) : rows[j][sort_by] <= rows[i][sort_by]
                    /\ \A j \in 1..(i - 1) : rows[j][sort_by] < rows[i][sort_by]
         IN  <<rows[m]>> \o
             StableDescending([k \in 1..(Len(rows) - 1) |->
                                  IF k < m THEN rows[k] ELSE rows[k + 1]], sort_by)

\* rows in descending order of sort_by, equal values in any order
AnyDescending(rows, sort_by) ==
    { [i \in 1..Len(rows) |-> rows[p[i]]] : p \in
        {p \in Perms(Len(rows)) : \A i, j \in 1..Len(rows) :
            i < j => rows[p[i]][sort_by] >= rows[p[j]][sort_by]} }

\* the n smallest instead of the n largest
nsmallest(rows, n, sort_by) ==
    IF n <= 0 THEN {<<>>}
    ELSE { SubSeq([i \in 1..Len(rows) |-> rows[p[i]]], 1, Min(n, Len(rows))) : p \in
            {p \in Perms(Len(rows)) : \A i, j \in 1..Len(rows) :
                i < j => rows[p[i]][sort_by] <= rows[p[j]][sort_by]} }

\* DataFrame.nlargest(n, sort_by), keep='first'.  n <= 0 selects nothing;
\* n >= len(df) takes the slow path, sort_values with the default quicksort,
\* which leaves the order of equal values open; otherwise the n largest are
\* selected and ordered by a mergesort, equal values in their original order
nlargest(rows, n, sort_by) ==
    IF n <= 0 THEN {<<>>}
    ELSE IF n >= Len(rows) THEN AnyDescending(rows, sort_by)
    ELSE {SubSeq(StableDescending(rows, sort_by), 1, n)}

\* no selection of columns
NoProjection(cols) == cols

\* the columns df[[...]] selects
Projection(cols) == DisplayColumns

calculate_top_disputes(cols, rows, n, sort_by_arg) ==
    LET sort_by == IF sort_by_arg \notin cols THEN "discrepancy_value" ELSE sort_by_arg
    IN  IF sort_by \notin cols THEN {Raise("KeyError")}
        ELSE IF sort_by \notin NumericColumns THEN {Raise("TypeError")}
        ELSE IF ~(Projection(cols) \subseteq cols) THEN {Raise("KeyError")}
        ELSE {Outcome("ok", Projection(cols), t) : t \in nlargest(rows, n, sort_by)}

-----------------------------------------------------------------------------
(* Record sets the loader can hand over *)

Customers == {"A", "B"}

Values == {-50, 0, 5, 100}

\* timestamps: Mon 01-01 00:00, Wed 01-03 12:00, Sun 01-07 12:00,
\* Wed 01-31 12:00, Thu 02-01 00:00
Timestamps == {0, 5, 13, 61, 62}

\* the fields of a row that the model gives values
MkRow(c, v, g, t) ==
    [customerName |-> c, discrepancy_value |-> v, gallons |-> g, disputedAt |-> t]

\* rows varying in category and amount
RowsCat ==
    {MkRow(c, v, 15, 5) : c \in Customers \cup {NullCat}, v \in Values}

\* rows varying in timestamp
RowsTime ==
    {MkRow("A", v, 15, t) : v \in {-50, 100}, t \in Timestamps \cup {NaT}}

\* rows varying in the two amounts
RowsTop ==
    {MkRow("A", v, g, 5) : v \in {-50, 5, 100}, g \in {0, 15}}

\* rows of a frame that lacks some columns: a lacking column holds nothing
RowsShape(cols) ==
    {MkRow(c, v, g, t) :
        c \in (IF "customerName" \in cols THEN {"A"} ELSE {NullCat}),
        v \in (IF "discrepancy_value" \in cols THEN {-50, 100} ELSE {0}),
        g \in (IF "gallons" \in cols THEN {15} ELSE {0}),
        t \in (IF "disputedAt" \in cols THEN {5} ELSE {NaT})}

\* load_disputes_data numbers the rows: the RangeIndex of read_csv
WithIndex(s) ==
    [i \in 1..Len(s) |->
        [idx |-> i, customerName |-> s[i].customerName,
         discrepancy_value |-> s[i].discrepancy_value,
         gallons |-> s[i].gallons, disputedAt |-> s[i].disputedAt]]

SeqsUpTo(S, n) == UNION {[1..k -> S] : k \in 0..n}

AllColumns == clean_disputes_data(RawColumns)

\* the whole file, and files lacking one column
RawColumnSets ==
    {RawColumns} \cup
    {RawColumns \ {c} : c \in {"customerName", "disputedAt", "gallons", "item",
                               "discrepancy_value"}}

FramesOf(rowset) ==
    {[columns |-> AllColumns, df |-> WithIndex(s)] : s \in SeqsUpTo(rowset, MaxLen)}

FramesCat == FramesOf(RowsCat)

FramesTime == FramesOf(RowsTime)

FramesTop == FramesOf(RowsTop)

\* pd.DataFrame(): what load_data returns when loading fails
NoData == [columns |-> {}, df |-> <<>>]

FramesShape ==
    {NoData} \cup
    UNION { {[columns |-> clean_disputes_data(raw), df |-> WithIndex(s)] :
                s \in SeqsUpTo(RowsShape(raw), MaxLen)} : raw \in RawColumnSets }

NoCall == [op |-> "none", col |-> "", freq |-> "", n |-> 0]

InitFrom(frames) ==
    /\ \E f \in frames : columns = f.columns /\ df = f.df
    /\ call = NoCall
    /\ status = "none"
    /\ resultColumns = {}
    /\ table = <<>>
    /\ metrics = <<>>

\* any shape of frame, few values
Init == InitFrom(FramesShape)

\* whole frames varying in category and amount
InitCat == InitFrom(FramesCat)

\* whole frames varying in timestamp
InitTime == InitFrom(FramesTime)

\* whole frames varying in the amounts, and frames of any shape
InitTop == InitFrom(FramesTop \cup FramesShape)

-----------------------------------------------------------------------------
(* Operations: the four calls the presentation layer makes *)

CategoryArgs == {"customerName", "anyField"}

DateArgs == {"disputedAt", "anyField"}

FreqArgs == {"D", "W", "M"}

SortArgs == {"discrepancy_value", "gallons", "customerName", "anyField"}

Returns(o) ==
    /\ status' = o.status
    /\ resultColumns' = o.columns
    /\ table' = o.table
    /\ metrics' = <<>>

\* set_index(date_col) applied to the caller's frame itself: the column
\* becomes the index and leaves the columns
IndexedInPlace(cols, date_col) == cols \ {date_col}

\* the columns of the caller's frame after calculate_by_date: the function
\* converts and indexes df_copy = df.copy(), a frame of its own, and
\* rebinds that name to what set_index returns
InputColumnsAfterByDate(cols, date_col) == cols

SummaryMetrics ==
    /\ call' = [op |-> "summaryMetrics", col |-> "", freq |-> "", n |-> 0]
    /\ IF SummaryNeeds \subseteq columns
       THEN /\ status' = "ok"
            /\ metrics' = <<calculate_summary_metrics(df)>>
       ELSE /\ status' = "KeyError"
            /\ metrics' = <<>>
    /\ resultColumns' = {}
    /\ table' = <<>>
    /\ UNCHANGED <<columns, df>>

ByCategory ==
    \E c \in CategoryArgs :
        /\ call' = [op |-> "byCategory", col |-> c, freq |-> "", n |-> 0]
        /\ \E o \in calculate_by_category(columns, df, c) : Returns(o)
        /\ UNCHANGED <<columns, df>>

ByTime ==
    \E c \in DateArgs, f \in FreqArgs :
        /\ call' = [op |-> "byTime", col |-> c, freq |-> f, n |-> 0]
        /\ Returns(calculate_by_date(columns, df, c, f))
        /\ columns' = InputColumnsAfterByDate(columns, c)
        /\ df' = df

TopN ==
    \E n \in -1..MaxN, f \in SortArgs :
        /\ call' = [op |-> "topN", col |-> f, freq |-> "", n |-> n]
        /\ \E o \in calculate_top_disputes(columns, df, n, f) : Returns(o)
        /\ UNCHANGED <<columns, df>>

Next ==
    \/ SummaryMetrics
    \/ ByCategory
    \/ ByTime
    \/ TopN

\* every call, in any order, on frames of any shape
Spec == Init /\ [][Next]_vars

NextCat ==
    \/ SummaryMetrics
    \/ ByCategory

\* the metrics engine and the category aggregator on whole frames
SpecCat == InitCat /\ [][NextCat]_vars

NextTime ==
    \/ ByTime

\* the time aggregator on whole frames
SpecTime == InitTime /\ [][NextTime]_vars

NextTop ==
    \/ TopN

\* the top-N selector
SpecTop == InitTop /\ [][NextTop]_vars

-----------------------------------------------------------------------------
(* Vocabulary of the properties *)

Stamped == SelectSeq(df, NotNaT)

StampedDays == {DayOf(Stamped[i].disputedAt) : i \in 1..Len(Stamped)}

\* the rows of df that satisfy P, and their signed sum
CountOf(P(_)) == Len(SelectSeq(df, P))
ValueOf(P(_)) == SumSeq(Column(SelectSeq(df, P), "discrepancy_value"))

TableTotal(field) == SumSeq(Column(table, field))

Called(op) == call.op = op

\* the days that end a calendar bucket of the granularity
EndsBucket(d, freq) ==
    IF freq = "D" THEN TRUE
    ELSE IF freq = "W" THEN d % 7 = 6
    ELSE d \in MonthEnds

\* day d lies in the calendar bucket that ends with day e
InBucketEnding(d, e, freq) ==
    IF freq = "D" THEN d = e
    ELSE IF freq = "W" THEN e - 6 <= d /\ d <= e
    ELSE d <= e /\ ~(\E x \in MonthEnds : d <= x /\ x < e)

\* the last day of the calendar bucket that holds day d
BucketEnd(d, freq) ==
    CHOOSE e \in d..Greatest(MonthEnds) :
        EndsBucket(e, freq) /\ \A x \in d..(e - 1) : ~EndsBucket(x, freq)

\* the first day of the calendar bucket that ends with day e
BucketStart(e, freq) ==
    CHOOSE d \in 0..e : InBucketEnding(d, e, freq) /\
                        \A x \in 0..e : InBucketEnding(x, e, freq) => d <= x

-----------------------------------------------------------------------------
(* C1: the positive and the negative partition reconstruct the signed     *)
(* total: total_positive_discrepancy - total_negative_discrepancy equals  *)
(* total_discrepancy_value, total_negative_discrepancy is a non-negative  *)
(* magnitude, and zero-valued records contribute to neither partition.    *)
C1_PartitionsReconstructTotal ==
    (Called("summaryMetrics") /\ status = "ok") =>
        LET m == metrics[1] IN
        /\ m.total_positive_discrepancy - m.total_negative_discrepancy
              = m.total_discrepancy_value
        /\ m.total_discrepancy_value = SumSeq(Column(df, "discrepancy_value"))
        /\ m.total_negative_discrepancy >= 0
        /\ m.total_positive_discrepancy >= 0
        /\ m.disputes_with_positive_value + m.disputes_with_negative_value
              = CountOf(LAMBDA r : r.discrepancy_value # 0)

\* Scenario A: values 100, -50, 0 give 100, 50 and 50
C1_Witness ==
    /\ Called("summaryMetrics") /\ status = "ok"
    /\ Column(df, "discrepancy_value") = <<100, -50, 0>>
    /\ metrics[1].total_positive_discrepancy = 100
    /\ metrics[1].total_negative_discrepancy = 50
    /\ metrics[1].total_discrepancy_value = 50

-----------------------------------------------------------------------------
AllCategorised == \A i \in 1..Len(df) : df[i].customerName # NullCat

DistinctCategories == {df[i].customerName : i \in 1..Len(df)} \ {NullCat}

CategorySum(k) == ValueOf(LAMBDA r : r.customerName = k)

(* C2 as stated: byCategory has at most one row per distinct category,    *)
(* and when every record has a category the sum of total_discrepancy      *)
(* over the rows equals the signed total of the record set.               *)
C2_RowTotalsSumToTotal ==
    (Called("byCategory") /\ call.col \in columns /\ status = "ok") =>
        /\ Len(table) <= Cardinality(DistinctCategories)
        /\ AllCategorised =>
              TableTotal("total_discrepancy") = SumSeq(Column(df, "discrepancy_value"))

(* C2 amended: at most one row per distinct category; each row's          *)
(* total_discrepancy is its category's sum rounded to two decimals, so    *)
(* with every record categorised the sum over the rows equals the signed  *)
(* total when every category's sum is a whole number of hundredths, and   *)
(* is never further from it than half a hundredth per row.                *)
C2_RowTotalsSumToRoundedTotal ==
    (Called("byCategory") /\ call.col \in columns /\ status = "ok") =>
        /\ Len(table) <= Cardinality(DistinctCategories)
        /\ AllCategorised =>
              LET diff == TableTotal("total_discrepancy")
                            - SumSeq(Column(df, "discrepancy_value"))
              IN  /\ Abs(diff) <= 5 * Len(table)
                  /\ (\A k \in DistinctCategories : CategorySum(k) % 10 = 0)
                        => diff = 0

\* two categories, every record categorised, and rounding moved the sum
C2_Witness ==
    /\ Called("byCategory") /\ call.col \in columns /\ status = "ok"
    /\ AllCategorised
    /\ Len(table) = 2
    /\ TableTotal("total_discrepancy") # SumSeq(Column(df, "discrepancy_value"))

-----------------------------------------------------------------------------
(* C3: with at least one timestamp present, byTime emits exactly one row  *)
(* for every calendar bucket from the bucket of the earliest timestamp to *)
(* the bucket of the latest one, in strictly ascending order; each row    *)
(* counts and sums the records of its bucket, so a bucket without records *)
(* has dispute_count 0 and total_discrepancy 0.                           *)
C3_CalendarCompleteBuckets ==
    (Called("byTime") /\ call.col \in columns /\ Len(Stamped) > 0) =>
        /\ status = "ok"
        /\ LET f      == call.freq
               first  == BucketEnd(Least(StampedDays), f)
               last   == BucketEnd(Greatest(StampedDays), f)
               wanted == {e \in first..last : EndsBucket(e, f)}
           IN  /\ Len(table) = Cardinality(wanted)
               /\ {DayOf(table[i].disputedAt) : i \in 1..Len(table)} = wanted
               /\ \A i, j \in 1..Len(table) :
                     i < j => table[i].disputedAt < table[j].disputedAt
               /\ \A i \in 1..Len(table) :
                     LET e == DayOf(table[i].disputedAt) IN
                     /\ table[i].dispute_count =
                          CountOf(LAMBDA r : NotNaT(r) /\ InBucketEnding(DayOf(r.disputedAt), e, f))
                     /\ table[i].total_discrepancy =
                          ValueOf(LAMBDA r : NotNaT(r) /\ InBucketEnding(DayOf(r.disputedAt), e, f))

\* Scenario D: records on 01-01 and 01-03 give three daily rows, the middle one empty
C3_Witness ==
    /\ Called("byTime") /\ call.col \in columns /\ call.freq = "D" /\ status = "ok"
    /\ StampedDays = {0, 2}
    /\ Len(table) = 3
    /\ table[2].dispute_count = 0 /\ table[2].total_discrepancy = 0

-----------------------------------------------------------------------------
(* C4: with the timestamp field present, byTime does not raise when some  *)
(* records have no timestamp; they are in no bucket, so the bucket sums   *)
(* add up to the sum over the records with a timestamp, and the bucket    *)
(* counts to their number.                                                *)
C4_NullTimestampsExcludedWithoutError ==
    (/\ Called("byTime") /\ call.col \in columns /\ DateNeeds \subseteq columns
     /\ \E i \in 1..Len(df) : ~NotNaT(df[i])) =>
        /\ status = "ok"
        /\ TableTotal("total_discrepancy") = SumSeq(Column(Stamped, "discrepancy_value"))
        /\ TableTotal("dispute_count") = Len(Stamped)

\* the part of C4 the code keeps: as long as one record has a timestamp
C4_ExcludedWhenSomeTimestampPresent ==
    (/\ Called("byTime") /\ call.col \in columns /\ DateNeeds \subseteq columns
     /\ Len(Stamped) > 0) =>
        /\ status = "ok"
        /\ TableTotal("total_discrepancy") = SumSeq(Column(Stamped, "discrepancy_value"))
        /\ TableTotal("dispute_count") = Len(Stamped)
        /\ TableTotal("total_gallons") = SumSeq(Column(Stamped, "gallons"))

-----------------------------------------------------------------------------
\* what C5 says of the rows topN returns, sorted by f; `stable` says whether
\* equal values must appear in their original order
TopNContract(f, stable) ==
    /\ status = "ok"
    /\ Len(table) = Min(call.n, Len(df))
    /\ \A i \in 1..Len(table) : \E j \in 1..Len(df) : table[i] = df[j]
    /\ \A i, j \in 1..Len(table) : i # j => table[i].idx # table[j].idx
    /\ \A i, j \in 1..Len(table) : i < j => table[i][f] >= table[j][f]
    /\ Len(table) > 0 => \A j \in 1..Len(df) : df[j][f] <= table[1][f]
    /\ \A j \in 1..Len(df) :
          (\A i \in 1..Len(table) : table[i].idx # df[j].idx) =>
              \A i \in 1..Len(table) :
                  /\ df[j][f] <= table[i][f]
                  /\ df[j][f] = table[i][f] => table[i].idx < df[j].idx
    /\ stable =>
          \A i, j \in 1..Len(table) :
              (i < j /\ table[i][f] = table[j][f]) => table[i].idx < table[j].idx

(* C5 as stated: for every n >= 0 and every sort field present in a       *)
(* record set of the data model (one that has the display columns), topN  *)
(* returns min(n, |R|) records of R in descending order of the field, the *)
(* first one a maximum, no omitted record larger than a returned one, and *)
(* equal values in their original order.                                  *)
C5_TopNSortedStable ==
    (/\ Called("topN") /\ call.n >= 0 /\ call.col \in columns
     /\ DisplayColumns \subseteq columns) =>
        TopNContract(call.col, TRUE)

(* C5 amended: for every n >= 0, every numeric sort field present and a   *)
(* record set that has the eight display columns, topN returns            *)
(* min(n, |R|) records of R in descending order of the field, the first   *)
(* one a maximum, no omitted record larger than a returned one and, of    *)
(* equal values, the earlier records kept; equal values appear in their   *)
(* original order when n < |R| (with n >= |R| their order is open).       *)
C5_TopNSortedNumeric ==
    (/\ Called("topN") /\ call.n >= 0 /\ call.col \in columns
     /\ call.col \in NumericColumns /\ DisplayColumns \subseteq columns) =>
        TopNContract(call.col, call.n < Len(df))

\* a tie inside the result and a record left out
C5_Witness ==
    /\ Called("topN") /\ status = "ok" /\ call.col = "gallons"
    /\ call.n = 2 /\ Len(df) = 3 /\ Len(table) = 2
    /\ table[1].gallons = table[2].gallons
    /\ table[1].idx = 2 /\ table[2].idx = 3

-----------------------------------------------------------------------------
(* C6: when the requested category field is absent byCategory returns an  *)
(* empty table, and when the requested timestamp field is absent byTime   *)
(* returns an empty table; neither raises, whatever other columns the     *)
(* record set has or lacks.                                               *)
C6_MissingFieldGivesEmptyTable ==
    ((Called("byCategory") \/ Called("byTime")) /\ call.col \notin columns) =>
        /\ status = "ok"
        /\ table = <<>>
        /\ resultColumns = {}

\* the category field is absent from a frame with rows that also lacks gallons
C6_Witness ==
    /\ Called("byCategory") /\ call.col \notin columns
    /\ "gallons" \notin columns /\ Len(df) > 0
    /\ status = "ok" /\ table = <<>>

-----------------------------------------------------------------------------
(* C7: for the empty record set every aggregator returns a well-defined   *)
(* result instead of raising: summaryMetrics gives total_disputes 0, all  *)
(* sums and counts 0 and means that are 0 or the undefined marker;        *)
(* byCategory, byTime and topN give an empty table.                       *)
C7_EmptyRecordSetNeverRaises ==
    (Len(df) = 0 /\ ~Called("none")) =>
        /\ status = "ok"
        /\ table = <<>>
        /\ Called("summaryMetrics") =>
              LET m == metrics[1] IN
              /\ m.total_disputes = 0
              /\ m.total_discrepancy_value = 0 /\ m.total_gallons = 0
              /\ m.total_positive_discrepancy = 0 /\ m.total_negative_discrepancy = 0
              /\ m.disputes_with_positive_value = 0
              /\ m.disputes_with_negative_value = 0
              /\ m.avg_discrepancy_per_dispute.den = 0
              /\ m.avg_gallons_per_dispute.den = 0

\* the part of C7 the code keeps: an empty record set that has its columns
C7_EmptyWithColumnsNeverRaises ==
    (Len(df) = 0 /\ columns = AllColumns /\ ~Called("none")) =>
        /\ (status = "ok" \/ (Called("topN") /\ call.col = "customerName"))
        /\ table = <<>>
        /\ Called("summaryMetrics") =>
              /\ metrics[1].total_disputes = 0
              /\ metrics[1].avg_discrepancy_per_dispute.den = 0

-----------------------------------------------------------------------------
(* C8: topN called with a negative N ends in an error and never returns   *)
(* a result table.                                                        *)
C8_NegativeNRaises ==
    (Called("topN") /\ call.n < 0) => status # "ok"

-----------------------------------------------------------------------------
(* C9 as stated: every record topN returns carries all columns of its     *)
(* input record unchanged: the columns of the result are the columns of   *)
(* the input record set.                                                  *)
C9_AllColumnsPreserved ==
    (Called("topN") /\ status = "ok") =>
        /\ resultColumns = columns
        /\ \A i \in 1..Len(table) : \E j \in 1..Len(df) : table[i] = df[j]

(* C9 amended: every record topN returns carries the eight display        *)
(* columns of its input record unchanged: the columns of the result are   *)
(* the eight display columns, which the input record set must have.       *)
C9_DisplayColumnsPreserved ==
    (Called("topN") /\ status = "ok") =>
        /\ resultColumns = DisplayColumns
        /\ DisplayColumns \subseteq columns
        /\ \A i \in 1..Len(table) : \E j \in 1..Len(df) : table[i] = df[j]

\* records returned from a record set that has more than the display columns
C9_Witness ==
    /\ Called("topN") /\ status = "ok" /\ Len(table) > 0
    /\ "expected_rate" \in columns /\ "expected_rate" \notin resultColumns

-----------------------------------------------------------------------------
\* the records with a timestamp from lo up to, not including, hi
CountBetween(lo, hi) ==
    CountOf(LAMBDA r : NotNaT(r) /\ lo <= r.disputedAt /\ r.disputedAt < hi)

(* C10 as stated: the timestamp of every byTime row is the start of its   *)
(* bucket (midnight of the day, the first day of the week, the first day  *)
(* of the month), and the records the row counts have a timestamp at or   *)
(* after it and before the next row's.                                    *)
C10_RowsStampedWithBucketStart ==
    (Called("byTime") /\ call.col \in columns /\ status = "ok") =>
        \A i \in 1..Len(table) :
            LET t == table[i].disputedAt IN
            /\ t = Midnight(DayOf(t))
            /\ DayOf(t) = BucketStart(BucketEnd(DayOf(t), call.freq), call.freq)
            /\ table[i].dispute_count =
                  CountOf(LAMBDA r : /\ NotNaT(r) /\ t <= r.disputedAt
                                     /\ (i < Len(table) => r.disputedAt < table[i + 1].disputedAt))

(* C10 amended: the timestamp of every byTime row is a midnight: for day  *)
(* granularity the start of the bucket, for week and month granularity    *)
(* midnight of the bucket's last day (the Sunday that ends the week, the  *)
(* last day of the month); the records the row counts have a timestamp    *)
(* from the first midnight of that bucket up to, not including, the       *)
(* midnight after its last day.                                           *)
C10_RowsStampedWithBucketLabel ==
    (Called("byTime") /\ call.col \in columns /\ status = "ok") =>
        \A i \in 1..Len(table) :
            LET t == table[i].disputedAt
                e == DayOf(t)
            IN  /\ t = Midnight(e)
                /\ EndsBucket(e, call.freq)
                /\ table[i].dispute_count =
                      CountBetween(Midnight(BucketStart(e, call.freq)), Midnight(e + 1))

\* a weekly row counting a record that is earlier than the row's timestamp
C10_Witness ==
    /\ Called("byTime") /\ call.col \in columns /\ status = "ok"
    /\ call.freq = "W" /\ Len(table) = 1 /\ table[1].dispute_count = 1
    /\ Len(Stamped) = 1 /\ Stamped[1].disputedAt < table[1].disputedAt

-----------------------------------------------------------------------------
\* the rows of the category table and the records they stand for
RowCategories == {table[i].category : i \in 1..Len(table)}

CategoryCount(k) == CountOf(LAMBDA r : r.customerName = k)

(* C11 as stated: byCategory has exactly one row per distinct non-null    *)
(* category; the row's count is the number of records of the category and *)
(* its total_discrepancy is their signed sum; the rows are ordered by     *)
(* non-increasing total_discrepancy.                                      *)
C11_OneRowPerCategoryWithSum ==
    (Called("byCategory") /\ call.col \in columns /\ status = "ok") =>
        /\ Len(table) = Cardinality(DistinctCategories)
        /\ RowCategories = DistinctCategories
        /\ \A i \in 1..Len(table) :
              /\ table[i].count = CategoryCount(table[i].category)
              /\ table[i].total_discrepancy = CategorySum(table[i].category)
        /\ \A i, j \in 1..Len(table) :
              i < j => table[i].total_discrepancy >= table[j].total_discrepancy

(* C11 amended: byCategory has exactly one row per distinct non-null      *)
(* category; the row's count is the number of records of the category and *)
(* its total_discrepancy is their signed sum rounded to two decimals (the *)
(* sum itself when it has at most two decimals); the rows are ordered by  *)
(* non-increasing total_discrepancy.                                      *)
C11_OneRowPerCategoryWithRoundedSum ==
    (Called("byCategory") /\ call.col \in columns /\ status = "ok") =>
        /\ Len(table) = Cardinality(DistinctCategories)
        /\ RowCategories = DistinctCategories
        /\ \A i \in 1..Len(table) :
              LET sum == CategorySum(table[i].category) IN
              /\ table[i].count = CategoryCount(table[i].category)
              /\ table[i].total_discrepancy % 10 = 0
              /\ Abs(table[i].total_discrepancy - sum) <= 5
              /\ sum % 10 = 0 => table[i].total_discrepancy = sum
        /\ \A i, j \in 1..Len(table) :
              i < j => table[i].total_discrepancy >= table[j].total_discrepancy

\* as in Scenario B: two records of one category, one positive and one
\* negative, in one row with their signed sum, above the row of a second
\* category with a smaller total
C11_Witness ==
    /\ Called("byCategory") /\ call.col \in columns /\ status = "ok"
    /\ Len(df) = 3 /\ Len(table) = 2
    /\ table[1].count = 2 /\ table[1].total_discrepancy = 50
    /\ CategorySum(table[1].category) = 50
    /\ table[2].total_discrepancy < 50

-----------------------------------------------------------------------------
\* what the last call returned
Returned == Outcome(status, resultColumns, table)

(* C12 as stated: when the sort field passed to topN is not a column of   *)
(* the record set, topN does not fail and returns exactly a result it     *)
(* returns for the default field discrepancy_value with the same record   *)
(* set and n.                                                             *)
C12_MissingSortFieldFallsBack ==
    (Called("topN") /\ call.col \notin columns) =>
        /\ status = "ok"
        /\ Returned \in calculate_top_disputes(columns, df, call.n, "discrepancy_value")

\* with a sort field that is not a column topN ends as the call with the
\* default field ends, and it does not fail when the record set has the
\* display columns
C12_FallsBackWhenDisplayColumnsPresent ==
    (Called("topN") /\ call.col \notin columns) =>
        /\ Returned \in calculate_top_disputes(columns, df, call.n, "discrepancy_value")
        /\ DisplayColumns \subseteq columns => status = "ok"

-----------------------------------------------------------------------------
\* the field whose equal values leave the order of the rows of a table open
TieField ==
    IF Called("byCategory") THEN "total_discrepancy"
    ELSE IF call.col \in columns THEN call.col ELSE "discrepancy_value"

\* the same rows, and the same row at every position up to rows of equal
\* TieField
SameResult(t, u) ==
    /\ Len(t) = Len(u)
    /\ {t[i] : i \in 1..Len(t)} = {u[i] : i \in 1..Len(u)}
    /\ (Called("summaryMetrics") \/ Called("byTime")) => t = u
    /\ (Called("byCategory") \/ Called("topN")) =>
          \A i \in 1..Len(t) : t[i][TieField] = u[i][TieField]

-----------------------------------------------------------------------------
Uncategorised == CountOf(LAMBDA r : r.customerName = NullCat)

(* C14: byCategory puts the records whose category is null in no group:   *)
(* no returned row has a null category, the counts of the returned rows   *)
(* add up to the number of records with a non-null category, and so to    *)
(* strictly less than summaryMetrics' total_disputes when some record has *)
(* a null category.                                                       *)
C14_NullCategoryInNoGroup ==
    (Called("byCategory") /\ call.col \in columns /\ status = "ok") =>
        /\ \A i \in 1..Len(table) : table[i].category # NullCat
        /\ TableTotal("count") = Len(df) - Uncategorised
        /\ TableTotal("count") = CountOf(LAMBDA r : r.customerName # NullCat)
        /\ Uncategorised > 0 =>
              TableTotal("count") < calculate_summary_metrics(df).total_disputes

\* one record without a category among records of two categories
C14_Witness ==
    /\ Called("byCategory") /\ call.col \in columns /\ status = "ok"
    /\ Len(df) = 3 /\ Uncategorised = 1
    /\ Len(table) = 2 /\ TableTotal("count") = 2
    /\ calculate_summary_metrics(df).total_disputes = 3

====
